---- MODULE Spec2Model ----
(***************************************************************************)
(* Model of trackingService.ts: the event batcher (eventQueue, the flush   *)
(* timer, flushEvents) and the presence heartbeat (lastActivity,           *)
(* isTabActive, pingInterval, startLiveTracking, sendPing) on a            *)
(* single-threaded event loop.  One action is one run-to-completion piece  *)
(* of JavaScript: a call from the page, a timer callback, a DOM listener,  *)
(* or the continuation of an async function after an await.                *)
(***************************************************************************)
EXTENDS Integers, Sequences, FiniteSets, TLC

\* ---- program constants ------------------------------------------------
FLUSH_INTERVAL == 5000
MAX_QUEUE_SIZE == 10
PING_INTERVAL == 20000
ACTIVE_THRESHOLD == 60000
MIN_ACTIVITY_GAP == 10000

\* ---- bounds of the model ----------------------------------------------
\* time quanta (milliseconds) by which the clock advances
BatchQuantum == FLUSH_INTERVAL \div 5
PingQuantum == MIN_ACTIVITY_GAP \div 2
CountQuantum == ACTIVE_THRESHOLD \div 6
\* number of clock advances, queueEvent calls, startLiveTracking calls and
\* beforeunload dispatches explored by each specification
MaxBatchTicks == 7
MaxEvents == 4
MaxFillTicks == 6
MaxFill == 11
MaxPingTicks == 5
MaxStarts == 2
MaxUnloads == 1
MaxSysTicks == 4
MaxSysEvents == 1
MaxSysStarts == 1
MaxGroup == 5
MaxGroupTicks == 2
MaxCountTicks == 7

Tables == {"business_interactions", "visit_logs"}

\* the devices whose presence records the sink holds
Devices == {"d1", "d2"}
NoRecord == [is_active |-> FALSE, last_ping |-> <<>>]

VARIABLES
  isAnalyticsEnabled, \* the imported global enable flag (fixed per run)
  now,                \* Date.now()
  eventQueue,         \* let eventQueue: any[]
  flushTimeout,       \* let flushTimeout (0 models null, else a timer id)
  timers,             \* the host's pending setTimeout/setInterval entries
  nextHandle,         \* next id handed out by setTimeout/setInterval
  flushes,            \* every flushEvents run that captured a batch
  nQueued,            \* number of queueEvent calls made so far
  noopFlushes,        \* number of flushEvents calls that returned at line 80
  lastActivity,       \* let lastActivity
  isTabActive,        \* let isTabActive
  pingInterval,       \* let pingInterval (0 models null, else a timer id)
  starts,             \* every startLiveTracking run that passed line 208
  nStartCalls,        \* number of startLiveTracking calls made so far
  pings,              \* every sendPing invocation, with what it read and did
  unloadListeners,    \* beforeunload listeners added by startLiveTracking
  beacons,            \* navigator.sendBeacon calls (is_active: false)
  nUnloads,           \* number of beforeunload dispatches so far
  liveUsers,          \* the sink's live_users collection, keyed by device_id
  liveCount           \* the last getLiveUsersCount call and what it returned

vars == <<isAnalyticsEnabled, now, eventQueue, flushTimeout, timers,
          nextHandle, flushes, nQueued, noopFlushes, lastActivity,
          isTabActive, pingInterval, starts, nStartCalls, pings,
          unloadListeners, beacons, nUnloads, liveUsers, liveCount>>

batcherVars == <<eventQueue, flushTimeout, flushes, nQueued, noopFlushes>>
sinkVars == <<liveUsers, liveCount>>
heartbeatVars == <<lastActivity, isTabActive, pingInterval, starts,
                   nStartCalls, pings, unloadListeners, beacons>>

\* ---- the imported analytics client ------------------------------------
\* analyticsClient is non-null exactly when the subsystem is enabled.
analyticsClient == isAnalyticsEnabled

\* ---- pure helpers -------------------------------------------------------
\* eventsToSend.filter(e => e.table === 'business_interactions')
businessInteractions(batch) ==
  SelectSeq(batch, LAMBDA e : e.table = "business_interactions")

\* eventsToSend.filter(e => e.table === 'visit_logs')
visitLogs(batch) ==
  SelectSeq(batch, LAMBDA e : e.table = "visit_logs")

\* xs.map(e => e.data)
rowsOf(xs) == [i \in 1..Len(xs) |-> xs[i].data]

\* afterInteractions without the visitLogs.length > 0 guard
afterInteractions_NoGuard(t) ==
  IF analyticsClient
  THEN [t EXCEPT !.pc = "visit_logs",
                 !.calls = Append(@, [table |-> "visit_logs",
                                      rows |-> rowsOf(visitLogs(t.batch))])]
  ELSE [t EXCEPT !.pc = "done"]

\* The second half of the flush body: the visit_logs insert, or the end.
afterInteractions(t) ==
  IF Len(visitLogs(t.batch)) > 0 /\ analyticsClient
  THEN [t EXCEPT !.pc = "visit_logs",
                 !.calls = Append(@, [table |-> "visit_logs",
                                      rows |-> rowsOf(visitLogs(t.batch))])]
  ELSE [t EXCEPT !.pc = "done"]

\* The first half of the flush body, run synchronously by the call: the
\* business_interactions insert, or straight on to the visit logs.
startSend(t) ==
  IF Len(businessInteractions(t.batch)) > 0 /\ analyticsClient
  THEN [t EXCEPT !.pc = "business_interactions",
                 !.calls = Append(@, [table |-> "business_interactions",
                                      rows |-> rowsOf(businessInteractions(t.batch))])]
  ELSE afterInteractions(t)

\* safeAnalyticsOperation(op, fallback): runs op at once and swallows what
\* it throws; t is the flush body's state after its synchronous part.
safeAnalyticsOperation(t) == startSend(t)

\* clearTimeout(h) / clearInterval(h) on the host's timer table ts
clearTimer(ts, h) == {t \in ts : t.id # h}

\* ---- event batcher ------------------------------------------------------
\* flushEvents that captures the batch but leaves the queue as it was
flushEvents_NoClear(q, trigger) ==
  /\ flushTimeout' = flushTimeout
  /\ IF Len(q) = 0 \/ ~isAnalyticsEnabled
     THEN /\ eventQueue' = q
          /\ flushes' = flushes
          /\ noopFlushes' = noopFlushes + 1
     ELSE /\ eventQueue' = q
          /\ flushes' = Append(flushes,
                 safeAnalyticsOperation([batch |-> q, pc |-> "start",
                                         calls |-> <<>>, results |-> <<>>,
                                         trigger |-> trigger, at |-> now]))
          /\ noopFlushes' = noopFlushes

\* flushEvents whose early return tests only the enable flag
flushEvents_NoEmptyCheck(q, trigger) ==
  /\ flushTimeout' = flushTimeout
  /\ IF ~isAnalyticsEnabled
     THEN /\ eventQueue' = q
          /\ flushes' = flushes
          /\ noopFlushes' = noopFlushes + 1
     ELSE /\ eventQueue' = <<>>
          /\ flushes' = Append(flushes,
                 safeAnalyticsOperation([batch |-> q, pc |-> "start",
                                         calls |-> <<>>, results |-> <<>>,
                                         trigger |-> trigger, at |-> now]))
          /\ noopFlushes' = noopFlushes

\* flushEvents, called with the queue q it finds: returns at once on an
\* empty queue or when disabled; otherwise captures q, empties the queue and
\* runs the synchronous part of the send.  It never touches flushTimeout.
flushEvents(q, trigger) ==
  /\ flushTimeout' = flushTimeout
  /\ IF Len(q) = 0 \/ ~isAnalyticsEnabled
     THEN /\ eventQueue' = q
          /\ flushes' = flushes
          /\ noopFlushes' = noopFlushes + 1
     ELSE /\ eventQueue' = <<>>
          /\ flushes' = Append(flushes,
                 safeAnalyticsOperation([batch |-> q, pc |-> "start",
                                         calls |-> <<>>, results |-> <<>>,
                                         trigger |-> trigger, at |-> now]))
          /\ noopFlushes' = noopFlushes

\* scheduleFlush without the clearTimeout
scheduleFlush_NoCancel ==
  /\ timers' = timers \cup {[id |-> nextHandle, kind |-> "flush",
                             due |-> now + FLUSH_INTERVAL]}
  /\ flushTimeout' = nextHandle
  /\ nextHandle' = nextHandle + 1

\* scheduleFlush armed with the heartbeat's period
scheduleFlush_WrongInterval ==
  /\ timers' = clearTimer(timers, flushTimeout)
                 \cup {[id |-> nextHandle, kind |-> "flush",
                        due |-> now + PING_INTERVAL]}
  /\ flushTimeout' = nextHandle
  /\ nextHandle' = nextHandle + 1

\* scheduleFlush that arms a timer only while no handle is stored
scheduleFlush_IfNone ==
  IF flushTimeout # 0
  THEN UNCHANGED <<timers, flushTimeout, nextHandle>>
  ELSE /\ timers' = timers \cup {[id |-> nextHandle, kind |-> "flush",
                                  due |-> now + FLUSH_INTERVAL]}
       /\ flushTimeout' = nextHandle
       /\ nextHandle' = nextHandle + 1

\* scheduleFlush: cancel the stored timer, arm a new one FLUSH_INTERVAL ahead
scheduleFlush ==
  /\ timers' = clearTimer(timers, flushTimeout)
                 \cup {[id |-> nextHandle, kind |-> "flush",
                        due |-> now + FLUSH_INTERVAL]}
  /\ flushTimeout' = nextHandle
  /\ nextHandle' = nextHandle + 1

\* queueEvent with > in place of >= at the size trigger
queueEvent_gt(table) ==
  IF ~isAnalyticsEnabled
  THEN UNCHANGED <<eventQueue, flushTimeout, timers, nextHandle, flushes,
                   noopFlushes>>
  ELSE LET q == Append(eventQueue,
                       [table |-> table,
                        data |-> [id |-> nQueued + 1, created_at |-> now]])
       IN IF Len(q) > MAX_QUEUE_SIZE
          THEN /\ flushEvents(q, "size")
               /\ UNCHANGED <<timers, nextHandle>>
          ELSE /\ eventQueue' = q
               /\ scheduleFlush
               /\ UNCHANGED <<flushes, noopFlushes>>

\* queueEvent without the isAnalyticsEnabled gate
queueEvent_NoGate(table) ==
  LET q == Append(eventQueue,
                  [table |-> table,
                   data |-> [id |-> nQueued + 1, created_at |-> now]])
  IN IF Len(q) >= MAX_QUEUE_SIZE
     THEN /\ flushEvents(q, "size")
          /\ UNCHANGED <<timers, nextHandle>>
     ELSE /\ eventQueue' = q
          /\ scheduleFlush
          /\ UNCHANGED <<flushes, noopFlushes>>

\* queueEvent that nulls the timer handle (without clearTimeout) when the
\* size trigger flushes
queueEvent_NullsHandle(table) ==
  IF ~isAnalyticsEnabled
  THEN UNCHANGED <<eventQueue, flushTimeout, timers, nextHandle, flushes,
                   noopFlushes>>
  ELSE LET q == Append(eventQueue,
                       [table |-> table,
                        data |-> [id |-> nQueued + 1, created_at |-> now]])
       IN IF Len(q) >= MAX_QUEUE_SIZE
          THEN /\ eventQueue' = <<>>
               /\ flushes' = Append(flushes,
                      safeAnalyticsOperation([batch |-> q, pc |-> "start",
                                              calls |-> <<>>, results |-> <<>>,
                                              trigger |-> "size", at |-> now]))
               /\ noopFlushes' = noopFlushes
               /\ flushTimeout' = 0
               /\ UNCHANGED <<timers, nextHandle>>
          ELSE /\ eventQueue' = q
               /\ scheduleFlush
               /\ UNCHANGED <<flushes, noopFlushes>>

\* queueEvent(table, data); data carries the creation timestamp
queueEvent(table) ==
  IF ~isAnalyticsEnabled
  THEN UNCHANGED <<eventQueue, flushTimeout, timers, nextHandle, flushes,
                   noopFlushes>>
  ELSE LET q == Append(eventQueue,
                       [table |-> table,
                        data |-> [id |-> nQueued + 1, created_at |-> now]])
       IN IF Len(q) >= MAX_QUEUE_SIZE
          THEN /\ flushEvents(q, "size")
               /\ UNCHANGED <<timers, nextHandle>>
          ELSE /\ eventQueue' = q
               /\ scheduleFlush
               /\ UNCHANGED <<flushes, noopFlushes>>

\* ---- presence heartbeat -------------------------------------------------
\* sendPing with >= in place of > at the idle gate
sendPing_ge ==
  [at |-> now, visible |-> isTabActive, lastActivity |-> lastActivity,
   sent |-> /\ ~(~isTabActive \/ now - lastActivity >= MIN_ACTIVITY_GAP
                  \/ ~isAnalyticsEnabled)
            /\ analyticsClient,
   is_active |-> TRUE, last_ping |-> now]

\* sendPing: what one invocation reads and whether it issues the upsert
sendPing ==
  [at |-> now, visible |-> isTabActive, lastActivity |-> lastActivity,
   sent |-> /\ ~(~isTabActive \/ now - lastActivity > MIN_ACTIVITY_GAP
                  \/ ~isAnalyticsEnabled)
            /\ analyticsClient,
   is_active |-> TRUE, last_ping |-> now]

\* a continuation that is waiting in the microtask queue
MicroPending == \E i \in 1..Len(starts) : starts[i].pc = "await" /\ starts[i].micro

\* ---- presence query ----------------------------------------------------
\* new Date(t).toISOString(): whole seconds and milliseconds of t
toISOString(t) == <<t \div 1000, t % 1000>>

\* the sink's .gte() on two timestamps
gte(a, b) == a[1] > b[1] \/ (a[1] = b[1] /\ a[2] >= b[2])

\* getLiveUsersCount with >, not >=, at the threshold
getLiveUsersCount_gt(err) ==
  IF ~analyticsClient THEN 0
  ELSE IF err THEN 0
  ELSE LET threshold == toISOString(now - ACTIVE_THRESHOLD)
       IN Cardinality({d \in Devices :
              /\ liveUsers[d] # NoRecord
              /\ liveUsers[d].is_active = TRUE
              /\ gte(liveUsers[d].last_ping, threshold)
              /\ liveUsers[d].last_ping # threshold})

\* getLiveUsersCount: 0 without a client, the fallback 0 when the query
\* returns an error (thrown, then swallowed by safeAnalyticsOperation),
\* otherwise the sink's exact count of the filtered rows
getLiveUsersCount(err) ==
  IF ~analyticsClient THEN 0
  ELSE IF err THEN 0
  ELSE LET threshold == toISOString(now - ACTIVE_THRESHOLD)
       IN Cardinality({d \in Devices :
              /\ liveUsers[d] # NoRecord
              /\ liveUsers[d].is_active = TRUE
              /\ gte(liveUsers[d].last_ping, threshold)})

\* ---- actions ------------------------------------------------------------
\* trackBusinessInteraction / the visit-log enqueues: one queueEvent call
QueueEvent(table) ==
  /\ queueEvent(table)
  /\ nQueued' = nQueued + 1
  /\ UNCHANGED sinkVars
  /\ UNCHANGED <<isAnalyticsEnabled, now, nUnloads>>
  /\ UNCHANGED heartbeatVars

\* the flush timer's callback: setTimeout(flushEvents, FLUSH_INTERVAL)
TimerFire ==
  /\ ~MicroPending
  /\ \E t \in timers :
       /\ t.kind = "flush"
       /\ t.due <= now
       /\ timers' = timers \ {t}
  /\ flushEvents(eventQueue, "timer")
  /\ UNCHANGED sinkVars
  /\ UNCHANGED <<isAnalyticsEnabled, now, nextHandle, nQueued, nUnloads>>
  /\ UNCHANGED heartbeatVars

\* FlushResume that puts the batch back into the queue when the insert failed
FlushResume_Requeue(i, err) ==
  /\ ~MicroPending
  /\ i \in 1..Len(flushes)
  /\ flushes[i].pc \in {"business_interactions", "visit_logs"}
  /\ LET t == [flushes[i] EXCEPT !.results = Append(@, IF err THEN "error" ELSE "ok")]
     IN flushes' = [flushes EXCEPT ![i] =
                      IF t.pc = "business_interactions"
                      THEN afterInteractions(t)
                      ELSE [t EXCEPT !.pc = "done"]]
  /\ eventQueue' = IF err THEN flushes[i].batch \o eventQueue ELSE eventQueue
  /\ UNCHANGED sinkVars
  /\ UNCHANGED <<isAnalyticsEnabled, now, flushTimeout, timers,
                 nextHandle, nQueued, noopFlushes, nUnloads>>
  /\ UNCHANGED heartbeatVars

\* a sink insert of flush i resolves, with or without an error
FlushResume(i, err) ==
  /\ ~MicroPending
  /\ i \in 1..Len(flushes)
  /\ flushes[i].pc \in {"business_interactions", "visit_logs"}
  /\ LET t == [flushes[i] EXCEPT !.results = Append(@, IF err THEN "error" ELSE "ok")]
     IN flushes' = [flushes EXCEPT ![i] =
                      IF t.pc = "business_interactions"
                      THEN afterInteractions(t)
                      ELSE [t EXCEPT !.pc = "done"]]
  /\ UNCHANGED sinkVars
  /\ UNCHANGED <<isAnalyticsEnabled, now, eventQueue, flushTimeout, timers,
                 nextHandle, nQueued, noopFlushes, nUnloads>>
  /\ UNCHANGED heartbeatVars

\* startLiveTracking without the initial sendPing
StartLiveTracking_NoPing ==
  /\ nStartCalls' = nStartCalls + 1
  /\ IF ~isAnalyticsEnabled
     THEN UNCHANGED <<starts, pings>>
     ELSE /\ pings' = pings
          /\ starts' = Append(starts,
                [pc |-> "await", micro |-> TRUE,
                 overlapped |-> \E i \in 1..Len(starts) : starts[i].pc = "await",
                 unloads |-> nUnloads])
  /\ UNCHANGED sinkVars
  /\ UNCHANGED <<isAnalyticsEnabled, now, timers, nextHandle, nUnloads,
                 lastActivity, isTabActive, pingInterval, unloadListeners,
                 beacons>>
  /\ UNCHANGED batcherVars

\* startLiveTracking up to its await
StartLiveTracking ==
  /\ nStartCalls' = nStartCalls + 1
  /\ IF ~isAnalyticsEnabled
     THEN UNCHANGED <<starts, pings>>
     ELSE LET p == sendPing
          IN /\ pings' = Append(pings, p)
             /\ starts' = Append(starts,
                   [pc |-> "await", micro |-> ~p.sent,
                    overlapped |-> \E i \in 1..Len(starts) : starts[i].pc = "await",
                    unloads |-> nUnloads])
  /\ UNCHANGED sinkVars
  /\ UNCHANGED <<isAnalyticsEnabled, now, timers, nextHandle, nUnloads,
                 lastActivity, isTabActive, pingInterval, unloadListeners,
                 beacons>>
  /\ UNCHANGED batcherVars

\* startLiveTracking's continuation without the clearInterval
StartResume_NoClear(i) ==
  /\ i \in 1..Len(starts)
  /\ starts[i].pc = "await"
  /\ IF starts[i].micro
     THEN \A j \in 1..(i-1) : ~(starts[j].pc = "await" /\ starts[j].micro)
     ELSE ~MicroPending
  /\ timers' = timers \cup {[id |-> nextHandle, kind |-> "ping",
                             due |-> now + PING_INTERVAL]}
  /\ pingInterval' = nextHandle
  /\ nextHandle' = nextHandle + 1
  /\ unloadListeners' = unloadListeners + 1
  /\ starts' = [starts EXCEPT ![i].pc = "done"]
  /\ UNCHANGED sinkVars
  /\ UNCHANGED <<isAnalyticsEnabled, now, nUnloads, lastActivity, isTabActive,
                 nStartCalls, pings, beacons>>
  /\ UNCHANGED batcherVars

\* startLiveTracking after its await: replace the interval, add the listener
StartResume(i) ==
  /\ i \in 1..Len(starts)
  /\ starts[i].pc = "await"
  /\ IF starts[i].micro
     THEN \A j \in 1..(i-1) : ~(starts[j].pc = "await" /\ starts[j].micro)
     ELSE ~MicroPending
  /\ timers' = clearTimer(timers, pingInterval)
                 \cup {[id |-> nextHandle, kind |-> "ping",
                        due |-> now + PING_INTERVAL]}
  /\ pingInterval' = nextHandle
  /\ nextHandle' = nextHandle + 1
  /\ unloadListeners' = unloadListeners + 1
  /\ starts' = [starts EXCEPT ![i].pc = "done"]
  /\ UNCHANGED sinkVars
  /\ UNCHANGED <<isAnalyticsEnabled, now, nUnloads, lastActivity, isTabActive,
                 nStartCalls, pings, beacons>>
  /\ UNCHANGED batcherVars

\* the setInterval callback: one sendPing per tick
IntervalFire ==
  /\ ~MicroPending
  /\ \E t \in timers :
       /\ t.kind = "ping"
       /\ t.due <= now
       /\ timers' = (timers \ {t}) \cup {[t EXCEPT !.due = @ + PING_INTERVAL]}
  /\ pings' = Append(pings, sendPing)
  /\ UNCHANGED sinkVars
  /\ UNCHANGED <<isAnalyticsEnabled, now, nextHandle, nUnloads, lastActivity,
                 isTabActive, pingInterval, starts, nStartCalls,
                 unloadListeners, beacons>>
  /\ UNCHANGED batcherVars

\* mousedown / keydown / scroll / touchstart listener
Activity ==
  /\ ~MicroPending
  /\ lastActivity' = now
  /\ UNCHANGED sinkVars
  /\ UNCHANGED <<isAnalyticsEnabled, now, timers, nextHandle, nUnloads,
                 isTabActive, pingInterval, starts, nStartCalls, pings,
                 unloadListeners, beacons>>
  /\ UNCHANGED batcherVars

\* visibilitychange listener that refreshes lastActivity on every transition
Visibility_AlwaysRefresh(hidden) ==
  /\ ~MicroPending
  /\ isTabActive' = ~hidden
  /\ lastActivity' = now
  /\ UNCHANGED sinkVars
  /\ UNCHANGED <<isAnalyticsEnabled, now, timers, nextHandle, nUnloads,
                 pingInterval, starts, nStartCalls, pings, unloadListeners,
                 beacons>>
  /\ UNCHANGED batcherVars

\* visibilitychange listener
Visibility(hidden) ==
  /\ ~MicroPending
  /\ isTabActive' = ~hidden
  /\ lastActivity' = IF ~hidden THEN now ELSE lastActivity
  /\ UNCHANGED sinkVars
  /\ UNCHANGED <<isAnalyticsEnabled, now, timers, nextHandle, nUnloads,
                 pingInterval, starts, nStartCalls, pings, unloadListeners,
                 beacons>>
  /\ UNCHANGED batcherVars

\* beforeunload without the module-level flushEvents listener
BeforeUnload_NoFlush ==
  /\ ~MicroPending
  /\ UNCHANGED <<eventQueue, flushTimeout, flushes, noopFlushes>>
  /\ timers' = IF unloadListeners > 0 THEN clearTimer(timers, pingInterval)
               ELSE timers
  /\ beacons' = beacons + (IF isAnalyticsEnabled /\ analyticsClient
                           THEN unloadListeners ELSE 0)
  /\ nUnloads' = nUnloads + 1
  /\ UNCHANGED sinkVars
  /\ UNCHANGED <<isAnalyticsEnabled, now, nextHandle, nQueued, lastActivity,
                 isTabActive, pingInterval, starts, nStartCalls, pings,
                 unloadListeners>>

\* beforeunload: the module-level listener (flushEvents), then the
\* listeners added by startLiveTracking, in registration order
BeforeUnload ==
  /\ ~MicroPending
  /\ flushEvents(eventQueue, "unload")
  /\ timers' = IF unloadListeners > 0 THEN clearTimer(timers, pingInterval)
               ELSE timers
  /\ beacons' = beacons + (IF isAnalyticsEnabled /\ analyticsClient
                           THEN unloadListeners ELSE 0)
  /\ nUnloads' = nUnloads + 1
  /\ UNCHANGED sinkVars
  /\ UNCHANGED <<isAnalyticsEnabled, now, nextHandle, nQueued, lastActivity,
                 isTabActive, pingInterval, starts, nStartCalls, pings,
                 unloadListeners>>

\* an eligible ping of device d reaches the sink: upsert on device_id
Upsert(d) ==
  /\ liveUsers' = [liveUsers EXCEPT ![d] =
                     [is_active |-> TRUE, last_ping |-> toISOString(now)]]
  /\ UNCHANGED <<liveCount, isAnalyticsEnabled, now, timers, nextHandle,
                 nUnloads>>
  /\ UNCHANGED batcherVars
  /\ UNCHANGED heartbeatVars

\* the final write of device d reaches the sink: is_active false
Deactivate(d) ==
  /\ liveUsers[d] # NoRecord
  /\ liveUsers' = [liveUsers EXCEPT ![d] =
                     [is_active |-> FALSE, last_ping |-> toISOString(now)]]
  /\ UNCHANGED <<liveCount, isAnalyticsEnabled, now, timers, nextHandle,
                 nUnloads>>
  /\ UNCHANGED batcherVars
  /\ UNCHANGED heartbeatVars

\* one getLiveUsersCount call; err: the sink's query returns an error
GetLiveUsersCount(err) ==
  /\ liveCount' = [called |-> TRUE, err |-> err, at |-> now,
                   count |-> getLiveUsersCount(err)]
  /\ UNCHANGED <<liveUsers, isAnalyticsEnabled, now, timers, nextHandle,
                 nUnloads>>
  /\ UNCHANGED batcherVars
  /\ UNCHANGED heartbeatVars

\* the clock moves on by at most d, never past a timer that is due
Advance(d) ==
  /\ ~MicroPending
  /\ \A t \in timers : t.due > now
  /\ now' = IF \E t \in timers : t.due < now + d
            THEN CHOOSE x \in {t.due : t \in timers} :
                   \A t \in timers : x <= t.due
            ELSE now + d
  /\ UNCHANGED sinkVars
  /\ UNCHANGED <<isAnalyticsEnabled, timers, nextHandle, nUnloads>>
  /\ UNCHANGED batcherVars
  /\ UNCHANGED heartbeatVars

\* ---- specifications -----------------------------------------------------
Init ==
  /\ isAnalyticsEnabled \in BOOLEAN
  /\ now = 0
  /\ eventQueue = <<>>
  /\ flushTimeout = 0
  /\ timers = {}
  /\ nextHandle = 1
  /\ flushes = <<>>
  /\ nQueued = 0
  /\ noopFlushes = 0
  /\ lastActivity = 0
  /\ isTabActive = TRUE
  /\ pingInterval = 0
  /\ starts = <<>>
  /\ nStartCalls = 0
  /\ pings = <<>>
  /\ unloadListeners = 0
  /\ beacons = 0
  /\ nUnloads = 0
  /\ liveUsers = [d \in Devices |-> NoRecord]
  /\ liveCount = [called |-> FALSE, err |-> FALSE, at |-> 0, count |-> 0]

\* the whole module, few calls
Next ==
  \/ \E table \in Tables : nQueued < MaxSysEvents /\ QueueEvent(table)
  \/ TimerFire
  \/ \E i \in 1..Len(flushes), err \in BOOLEAN : FlushResume(i, err)
  \/ nStartCalls < MaxSysStarts /\ StartLiveTracking
  \/ \E i \in 1..Len(starts) : StartResume(i)
  \/ IntervalFire
  \/ Activity
  \/ \E hidden \in BOOLEAN : Visibility(hidden)
  \/ nUnloads < MaxUnloads /\ BeforeUnload
  \/ now < MaxSysTicks * PingQuantum /\ Advance(PingQuantum)

Spec == Init /\ [][Next]_vars

\* the batcher alone, on a fine clock
NextBatch ==
  \/ \E table \in Tables : nQueued < MaxEvents /\ QueueEvent(table)
  \/ TimerFire
  \/ \E i \in 1..Len(flushes), err \in BOOLEAN : FlushResume(i, err)
  \/ nUnloads < MaxUnloads /\ BeforeUnload
  \/ now < MaxBatchTicks * BatchQuantum /\ Advance(BatchQuantum)

SpecBatch == Init /\ [][NextBatch]_vars

\* the batcher filled up to the size trigger and beyond
NextFill ==
  \/ nQueued < MaxFill /\ QueueEvent("business_interactions")
  \/ TimerFire
  \/ \E i \in 1..Len(flushes), err \in BOOLEAN : FlushResume(i, err)
  \/ now < MaxFillTicks * BatchQuantum /\ Advance(BatchQuantum)

SpecFill == Init /\ [][NextFill]_vars

\* The same regime with what the host guarantees about timers: the clock
\* keeps running while a flush timer is pending and a due timer's callback
\* runs.  The page makes its calls within the explored time window.
ClockFill ==
  /\ now < MaxFillTicks * BatchQuantum \/ \E t \in timers : t.kind = "flush"
  /\ Advance(BatchQuantum)

NextFillLive ==
  \/ /\ nQueued < MaxFill
     /\ now <= MaxFillTicks * BatchQuantum
     /\ QueueEvent("business_interactions")
  \/ TimerFire
  \/ \E i \in 1..Len(flushes), err \in BOOLEAN : FlushResume(i, err)
  \/ ClockFill

SpecFillFair ==
  /\ Init /\ [][NextFillLive]_vars
  /\ WF_vars(TimerFire)
  /\ WF_vars(ClockFill)

\* the heartbeat alone
NextPing ==
  \/ nStartCalls < MaxStarts /\ StartLiveTracking
  \/ \E i \in 1..Len(starts) : StartResume(i)
  \/ IntervalFire
  \/ Activity
  \/ \E hidden \in BOOLEAN : Visibility(hidden)
  \/ nUnloads < MaxUnloads /\ BeforeUnload
  \/ now < MaxPingTicks * PingQuantum /\ Advance(PingQuantum)

SpecPing == Init /\ [][NextPing]_vars

\* The heartbeat with what the host guarantees: microtask continuations run,
\* due interval callbacks run, the clock moves on.  Nothing guarantees that
\* the sink ever answers, so the continuation of a call that awaits the sink
\* carries no fairness condition.
MicroResume == \E i \in 1..Len(starts) : starts[i].micro /\ StartResume(i)
ClockPing == now < MaxPingTicks * PingQuantum /\ Advance(PingQuantum)

SpecPingFair ==
  /\ SpecPing
  /\ WF_vars(MicroResume)
  /\ WF_vars(IntervalFire)
  /\ WF_vars(ClockPing)

\* the batcher on a coarse clock, for the grouping of mixed batches
NextGroup ==
  \/ \E table \in Tables : nQueued < MaxGroup /\ QueueEvent(table)
  \/ TimerFire
  \/ \E i \in 1..Len(flushes), err \in BOOLEAN : FlushResume(i, err)
  \/ nUnloads < MaxUnloads /\ BeforeUnload
  \/ now < MaxGroupTicks * FLUSH_INTERVAL /\ Advance(FLUSH_INTERVAL)

SpecGroup == Init /\ [][NextGroup]_vars

\* the presence records of the sink and the live-users query
NextCount ==
  \/ \E d \in Devices : Upsert(d)
  \/ \E d \in Devices : Deactivate(d)
  \/ \E err \in BOOLEAN : GetLiveUsersCount(err)
  \/ now < MaxCountTicks * CountQuantum /\ Advance(CountQuantum)

SpecCount == Init /\ [][NextCount]_vars

\* ---- properties ---------------------------------------------------------
FlushTimers == {t \in timers : t.kind = "flush"}
PingTimers == {t \in timers : t.kind = "ping"}
LastOf(xs) == xs[Len(xs)]

C1_Bounded ==
  isAnalyticsEnabled =>
    /\ Len(eventQueue) <= MAX_QUEUE_SIZE - 1
    /\ \A i \in 1..Len(flushes) : Len(flushes[i].batch) <= MAX_QUEUE_SIZE

C1_Step ==
  (isAnalyticsEnabled /\ nQueued' = nQueued + 1
     /\ Len(eventQueue) = MAX_QUEUE_SIZE - 1)
  => /\ eventQueue' = <<>>
     /\ Len(flushes') = Len(flushes) + 1
     /\ Len(LastOf(flushes').batch) = MAX_QUEUE_SIZE
     /\ SubSeq(LastOf(flushes').batch, 1, MAX_QUEUE_SIZE - 1) = eventQueue

\* C1: with analytics enabled, the enqueue that brings the queue to
\* MAX_QUEUE_SIZE captures all of it in a flush inside that same call and
\* leaves the queue empty; the queue holds at most MAX_QUEUE_SIZE - 1 events
\* between operations and no captured batch exceeds MAX_QUEUE_SIZE.
C1_SizeTrigger == []C1_Bounded /\ [][C1_Step]_vars

C1_Witness ==
  /\ \E i \in 1..Len(flushes) :
       flushes[i].trigger = "size" /\ Len(flushes[i].batch) = MAX_QUEUE_SIZE
  /\ nQueued = MAX_QUEUE_SIZE + 1
  /\ Len(eventQueue) = 1

C2_Step ==
  (isAnalyticsEnabled /\ nQueued' = nQueued + 1
     /\ Len(eventQueue) < MAX_QUEUE_SIZE - 1)
  => /\ flushes' = flushes
     /\ Len(eventQueue') = Len(eventQueue) + 1
     /\ {t \in timers' : t.kind = "flush"}
          = {[id |-> flushTimeout', kind |-> "flush", due |-> now + FLUSH_INTERVAL]}
     /\ flushTimeout' \notin {t.id : t \in timers}
     /\ \A t \in timers : t.id = flushTimeout => t \notin timers'

C2_Fired ==
  \A i \in 1..Len(flushes) :
    flushes[i].trigger = "timer"
      => flushes[i].at = LastOf(flushes[i].batch).data.created_at + FLUSH_INTERVAL

\* C2: an enqueue that leaves the queue below MAX_QUEUE_SIZE flushes nothing,
\* removes the previously stored flush timer and arms exactly one new timer
\* due FLUSH_INTERVAL after this enqueue; every timer-triggered flush
\* therefore happens FLUSH_INTERVAL after the last enqueue of its batch.
C2_Debounce == []C2_Fired /\ [][C2_Step]_vars

C2_Witness ==
  \E i \in 1..Len(flushes) :
    /\ flushes[i].trigger = "timer"
    /\ flushes[i].at = 7000
    /\ Len(flushes[i].batch) = 3
    /\ flushes[i].batch[1].data.created_at = 0
    /\ flushes[i].batch[2].data.created_at = 1000
    /\ flushes[i].batch[3].data.created_at = 2000

C3_Places(id) ==
  {<<0, j>> : j \in {k \in 1..Len(eventQueue) : eventQueue[k].data.id = id}}
    \cup UNION {{<<i, j>> : j \in {k \in 1..Len(flushes[i].batch) :
                                     flushes[i].batch[k].data.id = id}}
                : i \in 1..Len(flushes)}

C3_Conserved ==
  isAnalyticsEnabled => \A id \in 1..nQueued : Cardinality(C3_Places(id)) = 1

C3_Step ==
  /\ Len(flushes') >= Len(flushes)
  /\ \A i \in 1..Len(flushes) : flushes'[i].batch = flushes[i].batch

\* C3: every accepted event is in exactly one place, the queue or one
\* captured batch, and a captured batch never changes afterwards: an event
\* enqueued during an in-flight flush is neither added to that batch nor
\* lost.
C3_SwapThenSend == []C3_Conserved /\ [][C3_Step]_vars

C3_Witness ==
  \E i, j \in 1..Len(flushes) :
    /\ i < j
    /\ flushes[i].pc \in {"business_interactions", "visit_logs"}
    /\ \E k \in 1..Len(flushes[j].batch) :
         \A m \in 1..Len(flushes[i].batch) :
           flushes[j].batch[k].data.id > flushes[i].batch[m].data.id

C4_Expected(batch, table) ==
  LET sel == SelectSeq(batch, LAMBDA e : e.table = table)
  IN [k \in 1..Len(sel) |-> sel[k].data]

\* C4: a flush issues at most one insert per category and none for a
\* category without events; each insert carries exactly the batch's events of
\* that category in enqueue order; a finished flush has issued one insert for
\* every category that has events.
C4_Grouped ==
  \A i \in 1..Len(flushes) : \A table \in Tables :
    LET t == flushes[i]
        exp == C4_Expected(t.batch, table)
        idx == {k \in 1..Len(t.calls) : t.calls[k].table = table}
    IN /\ Cardinality(idx) <= 1
       /\ exp = <<>> => idx = {}
       /\ (t.pc = "done" /\ exp # <<>>) => Cardinality(idx) = 1
       /\ \A k \in idx : t.calls[k].rows = exp
       /\ \A k \in 1..Len(t.calls) : t.calls[k].table \in Tables

C4_Witness ==
  \E i \in 1..Len(flushes) :
    /\ flushes[i].pc = "done"
    /\ Len(flushes[i].calls) = 2
    /\ Len(C4_Expected(flushes[i].batch, "business_interactions")) = 3
    /\ Len(C4_Expected(flushes[i].batch, "visit_logs")) = 2
    /\ flushes[i].batch[1].table = "visit_logs"

C5_Gate ==
  \A k \in 1..Len(pings) :
    pings[k].sent <=> /\ pings[k].visible
                      /\ pings[k].at - pings[k].lastActivity <= MIN_ACTIVITY_GAP
                      /\ isAnalyticsEnabled

C5_Step ==
  Len(pings') > Len(pings)
  => LET p == LastOf(pings')
     IN /\ Len(pings') = Len(pings) + 1
        /\ p.at = now /\ p.visible = isTabActive /\ p.lastActivity = lastActivity
        /\ p.sent => (p.is_active /\ p.last_ping = now)
        /\ ~p.sent => /\ nextHandle' = nextHandle
                      /\ {t.id : t \in timers'} = {t.id : t \in timers}

C6_OneInterval == Cardinality(PingTimers) <= 1

C6_Witness ==
  /\ Len(starts) >= 2
  /\ \A i \in 1..Len(starts) : starts[i].pc = "done"
  /\ \E i \in 1..Len(starts) : starts[i].overlapped /\ ~starts[i].micro
  /\ Cardinality(PingTimers) = 1
  /\ Len(pings) > Len(starts)

\* C7: while the enable flag is false no insert, upsert or beacon is issued,
\* no timer exists and the queue is empty, whatever calls are made.
C7_Disabled ==
  ~isAnalyticsEnabled =>
    /\ flushes = <<>>
    /\ \A k \in 1..Len(pings) : ~pings[k].sent
    /\ beacons = 0
    /\ timers = {}
    /\ flushTimeout = 0 /\ pingInterval = 0
    /\ eventQueue = <<>>

C7_Witness ==
  /\ ~isAnalyticsEnabled
  /\ nQueued >= 1 /\ nStartCalls >= 1 /\ nUnloads >= 1 /\ noopFlushes >= 1

\* C8: a flushEvents call (from the timer or from beforeunload) that finds
\* the queue empty returns before capturing a batch, so it issues no sink
\* call, and it leaves the queue and the stored timer handle as they were.
C8_EmptyFlush ==
  [][(/\ eventQueue = <<>>
      /\ nQueued' = nQueued
      /\ \/ nUnloads' = nUnloads + 1
         \/ \E t \in timers \ timers' : t.kind = "flush" /\ t.due <= now)
     => /\ eventQueue' = <<>>
        /\ flushTimeout' = flushTimeout
        /\ flushes' = flushes]_vars

C8_Witness ==
  /\ isAnalyticsEnabled
  /\ noopFlushes >= 1
  /\ \E i \in 1..Len(flushes) : flushes[i].trigger = "unload"
  /\ flushTimeout # 0
  /\ FlushTimers = {}
  /\ eventQueue = <<>>

\* C9 as stated: no queued event is older than FLUSH_INTERVAL.
C9_Original ==
  isAnalyticsEnabled =>
    \A j \in 1..Len(eventQueue) :
      now - eventQueue[j].data.created_at <= FLUSH_INTERVAL

\* C9 (amended): with analytics enabled, the queue is never left waiting
\* longer than FLUSH_INTERVAL after the most recent enqueue: a non-empty
\* queue's newest event is at most FLUSH_INTERVAL old, and every batch is
\* captured at most FLUSH_INTERVAL after the last event added to it.
C9_Amended ==
  /\ (isAnalyticsEnabled /\ eventQueue # <<>>)
       => now - LastOf(eventQueue).data.created_at <= FLUSH_INTERVAL
  /\ \A i \in 1..Len(flushes) :
       flushes[i].at - LastOf(flushes[i].batch).data.created_at <= FLUSH_INTERVAL

C9_Witness ==
  \E i \in 1..Len(flushes) :
    /\ flushes[i].at - flushes[i].batch[1].data.created_at > FLUSH_INTERVAL
    /\ flushes[i].at - LastOf(flushes[i].batch).data.created_at = FLUSH_INTERVAL

C10_One ==
  /\ Cardinality(FlushTimers) <= 1
  /\ \A t \in FlushTimers : t.id = flushTimeout

C10_Step ==
  (nQueued' = nQueued + 1 /\ Len(flushes') > Len(flushes))
  => (timers' = timers /\ flushTimeout' = flushTimeout)

\* C10: at most one flush timer is pending in every reachable state and it
\* is the one whose handle is stored; a size-triggered flush leaves both the
\* pending timer and the stored handle untouched.
C10_OneFlushTimer == []C10_One /\ [][C10_Step]_vars

C10_Witness ==
  /\ \E i \in 1..Len(flushes) : flushes[i].trigger = "size"
  /\ nQueued > MAX_QUEUE_SIZE
  /\ eventQueue # <<>>
  /\ Cardinality(FlushTimers) = 1
  /\ flushTimeout > MAX_QUEUE_SIZE - 1
\* C11: a beforeunload dispatch that follows one or more completed
\* startLiveTracking calls sends exactly one final beacon (is_active: false).
C11_Original ==
  [][(/\ isAnalyticsEnabled
      /\ nUnloads' = nUnloads + 1
      /\ Len(starts) >= 1
      /\ \A i \in 1..Len(starts) : starts[i].pc = "done")
     => beacons' = beacons + 1]_vars

\* C12: once beforeunload has been handled no heartbeat interval is live,
\* also when the only startLiveTracking calls are those made before it.
C12_Original ==
  (nUnloads >= 1 /\ \A i \in 1..Len(starts) : starts[i].unloads = 0)
    => PingTimers = {}

C13_Step ==
  (isAnalyticsEnabled /\ nUnloads' = nUnloads + 1)
  => /\ eventQueue' = <<>>
     /\ IF eventQueue = <<>>
        THEN flushes' = flushes
        ELSE /\ Len(flushes') = Len(flushes) + 1
             /\ LastOf(flushes').batch = eventQueue
             /\ \A i \in 1..Len(flushes) : flushes'[i] = flushes[i]

\* C13: the beforeunload dispatch captures every queued event into one
\* final batch and returns with the queue empty, leaving flushes already in
\* flight as they are, whether or not a flush timer is pending.
C13_FinalFlush == [][C13_Step]_vars

C13_Witness ==
  \E i, j \in 1..Len(flushes) :
    /\ i < j
    /\ flushes[i].pc \in {"business_interactions", "visit_logs"}
    /\ flushes[j].trigger = "unload"
    /\ Len(flushes[j].batch) >= 2
    /\ FlushTimers # {}
    /\ eventQueue = <<>>
\* C14: whichever sink call hangs, the recurring heartbeat schedule is still
\* created: once startLiveTracking has been entered, an interval handle is
\* eventually stored.
C14_Original == [](Len(starts) >= 1 => <>(pingInterval # 0))
\* C15 as stated: every startLiveTracking call issues the presence upsert.
C15_Original ==
  [][(isAnalyticsEnabled /\ nStartCalls' = nStartCalls + 1)
     => /\ Len(pings') = Len(pings) + 1
        /\ LastOf(pings').sent
        /\ LastOf(pings').is_active]_vars

C15_CallStep ==
  (isAnalyticsEnabled /\ nStartCalls' = nStartCalls + 1)
  => /\ Len(pings') = Len(pings) + 1
     /\ LastOf(pings').at = now
     /\ LastOf(pings').sent
          <=> (isTabActive /\ now - lastActivity <= MIN_ACTIVITY_GAP)
     /\ timers' = timers
     /\ pingInterval' = pingInterval
     /\ Len(starts') = Len(starts) + 1
     /\ LastOf(starts').pc = "await"

C15_ResumeStep ==
  pingInterval' # pingInterval
  => /\ \E i \in 1..Len(starts) : starts[i].pc = "await" /\ starts'[i].pc = "done"
     /\ {t \in timers' : t.kind = "ping"}
          = {[id |-> pingInterval', kind |-> "ping", due |-> now + PING_INTERVAL]}

C15_TickStep ==
  \A t \in timers : \A u \in timers' :
    (t.kind = "ping" /\ u.id = t.id /\ u.due # t.due)
      => (u.due = t.due + PING_INTERVAL /\ t.due <= now
          /\ Len(pings') = Len(pings) + 1)

\* C15 (amended): with analytics enabled, startLiveTracking invokes sendPing
\* once at the call, which issues the upsert only if the tab is visible and
\* the last activity is at most MIN_ACTIVITY_GAP old; the recurring schedule
\* is created only in the continuation after that ping, first due
\* PING_INTERVAL later and re-armed every PING_INTERVAL.
C15_Amended == [][C15_CallStep /\ C15_ResumeStep /\ C15_TickStep]_vars

C15_Witness ==
  /\ \E i \in 1..Len(starts) : starts[i].pc = "done" /\ starts[i].micro
  /\ PingTimers # {}
  /\ Len(pings) > Len(starts)
  /\ \E k \in 1..Len(pings) : ~pings[k].sent /\ ~pings[k].visible
C16_Millis(iso) == iso[1] * 1000 + iso[2]

\* C16: with a client, getLiveUsersCount returns the number of presence
\* records with is_active = true and last_ping >= now - ACTIVE_THRESHOLD
\* (a record exactly ACTIVE_THRESHOLD old counts, an older one does not even
\* though it still says is_active = true), and 0 when the query fails.
C16_LiveCount ==
  [][(liveCount' # liveCount /\ isAnalyticsEnabled)
     => liveCount'.count =
          IF liveCount'.err THEN 0
          ELSE Cardinality({d \in Devices :
                 /\ liveUsers[d] # NoRecord
                 /\ liveUsers[d].is_active
                 /\ C16_Millis(liveUsers[d].last_ping) >= now - ACTIVE_THRESHOLD})]_vars

C16_Witness ==
  /\ isAnalyticsEnabled
  /\ liveCount.called /\ ~liveCount.err /\ liveCount.at = now
  /\ liveCount.count = 1
  /\ \E d \in Devices :
       /\ liveUsers[d].is_active
       /\ C16_Millis(liveUsers[d].last_ping) = now - ACTIVE_THRESHOLD
  /\ \E d \in Devices :
       /\ liveUsers[d].is_active
       /\ C16_Millis(liveUsers[d].last_ping) = now - 70000
C17_Ids(xs) == {xs[k].data.id : k \in 1..Len(xs)}

C17_NotRequeued ==
  \A i \in 1..Len(flushes) : C17_Ids(flushes[i].batch) \cap C17_Ids(eventQueue) = {}

C17_WrittenOnce ==
  \A id \in 1..nQueued :
    Cardinality({<<i, c>> \in (1..Len(flushes)) \X (1..2) :
                   /\ c <= Len(flushes[i].calls)
                   /\ \E r \in 1..Len(flushes[i].calls[c].rows) :
                        flushes[i].calls[c].rows[r].id = id}) <= 1

C17_BothWritten ==
  \A i \in 1..Len(flushes) :
    (/\ flushes[i].pc \in {"visit_logs", "done"}
     /\ \A table \in Tables :
          \E k \in 1..Len(flushes[i].batch) : flushes[i].batch[k].table = table)
    => Len(flushes[i].calls) = 2

C17_Step ==
  (\E i \in 1..Len(flushes) : Len(flushes'[i].results) > Len(flushes[i].results))
  => (eventQueue' = eventQueue /\ timers' = timers /\ flushTimeout' = flushTimeout)

\* C17: captured events are never back in the queue and are written by at
\* most one insert, whatever the inserts return; when the first insert of a
\* mixed batch has resolved, with or without an error, the second has been
\* issued; a resolved insert changes neither the queue nor the flush timer.
C17_BestEffort ==
  [](C17_NotRequeued /\ C17_WrittenOnce /\ C17_BothWritten) /\ [][C17_Step]_vars

C17_Witness ==
  /\ eventQueue # <<>>
  /\ \E i \in 1..Len(flushes) :
       /\ flushes[i].pc = "done"
       /\ flushes[i].results = <<"error", "ok">>
       /\ Len(flushes[i].calls) = 2

C18_Step ==
  /\ lastActivity' >= lastActivity
  /\ lastActivity' # lastActivity
       => (lastActivity' = now /\ (isTabActive' = isTabActive \/ isTabActive'))
  /\ (isTabActive /\ ~isTabActive') => lastActivity' = lastActivity
  /\ (~isTabActive /\ isTabActive') => lastActivity' = now

\* C18: lastActivity only ever changes to the current time, never decreases
\* and never exceeds the current time; a step that hides the tab leaves
\* lastActivity unchanged, a step that shows it sets lastActivity to now, and
\* any other change of lastActivity leaves isTabActive unchanged.
C18_ActivitySignal == [](lastActivity <= now) /\ [][C18_Step]_vars

C18_Witness ==
  /\ ~isTabActive
  /\ 0 < lastActivity
  /\ lastActivity < now
  /\ Len(pings) >= 1

C19_Fired ==
  \A i \in 1..Len(flushes) :
    flushes[i].trigger = "timer"
      => \A k \in 1..Len(flushes[i].batch) :
           flushes[i].at - flushes[i].batch[k].data.created_at >= FLUSH_INTERVAL

C19_Step ==
  \A t \in timers \ timers' :
    (t.kind = "flush" /\ nQueued' = nQueued)
      => IF eventQueue = <<>>
         THEN flushes' = flushes
         ELSE t.due = LastOf(eventQueue).data.created_at + FLUSH_INTERVAL

\* C19: a flush timer that fires finds either an empty queue, and then
\* captures and sends nothing, or a queue whose most recent enqueue armed
\* it; no timer-triggered flush captures an event younger than
\* FLUSH_INTERVAL, also after a size-triggered flush left a timer pending.
C19_StaleTimer == []C19_Fired /\ [][C19_Step]_vars

C19_Witness ==
  /\ isAnalyticsEnabled
  /\ noopFlushes >= 1
  /\ \E i \in 1..Len(flushes) : flushes[i].trigger = "size"
  /\ FlushTimers = {}

C20_Armed ==
  (isAnalyticsEnabled /\ eventQueue # <<>>)
    => \E t \in FlushTimers :
         /\ t.id = flushTimeout
         /\ t.due = LastOf(eventQueue).data.created_at + FLUSH_INTERVAL

\* C20: with analytics enabled a non-empty queue always has its flush timer
\* pending, armed by the most recent enqueue; so when due timers fire and the
\* clock runs, a non-empty queue is eventually captured whole.
C20_TimerPending == []C20_Armed /\ ((eventQueue # <<>>) ~> (eventQueue = <<>>))

C20_Witness ==
  /\ isAnalyticsEnabled
  /\ eventQueue = <<>>
  /\ nQueued = MaxFill
  /\ \E i \in 1..Len(flushes) : flushes[i].trigger = "size"
  /\ \E i \in 1..Len(flushes) :
       flushes[i].trigger = "timer" /\ flushes[i].at > MaxFillTicks * BatchQuantum
====
